---- MODULE Spec2Model ----
(***************************************************************************)
(* coopernoise: an audio-reactive 3D form.  The module models              *)
(*   - the seeded random stream and string hash of noise.js,               *)
(*   - the shape-cycle scheduler of Visuals (recorder.js) as main.js       *)
(*     drives it (startAll / stopAll / the rAF loop / the shape selector), *)
(*   - the AudioEngine of audio.js (start / stop / per-frame getters),     *)
(*   - analyzeBuffer (tempo scan and beat grid),                           *)
(*   - the Perlin permutation table, noise3 and fbm3 of noise.js,          *)
(*   - the mesh, style and level filter of one Visuals object,             *)
(*   - the buttons, the recorder and the take timer of main.js.            *)
(* Every component has its own specification over the shared variables.    *)
(***************************************************************************)
EXTENDS Integers, Sequences, FiniteSets, TLC

(***************************************************************************)
(* 32-bit words.  TLC's integers are 32-bit signed, so an unsigned 32-bit  *)
(* word is kept as <<hi, lo>>, two 16-bit halves.                          *)
(***************************************************************************)
Half == 256 * 256

RECURSIVE XorN(_, _)
XorN(x, y) ==
  IF x = 0 THEN y
  ELSE IF y = 0 THEN x
  ELSE ((x + y) % 2) + 2 * XorN(x \div 2, y \div 2)

RECURSIVE OrN(_, _)
OrN(x, y) ==
  IF x = 0 THEN y
  ELSE IF y = 0 THEN x
  ELSE (IF x % 2 = 1 \/ y % 2 = 1 THEN 1 ELSE 0) + 2 * OrN(x \div 2, y \div 2)

Xor32(a, b) == <<XorN(a[1], b[1]), XorN(a[2], b[2])>>

Add32(a, b) ==
  LET lo == a[2] + b[2]
  IN  <<(a[1] + b[1] + (lo \div Half)) % Half, lo % Half>>

\* a >>> n for n in 1..15
Shr32(a, n) ==
  LET p == 2 ^ n
  IN  <<a[1] \div p, (a[2] \div p) + (a[1] % p) * (Half \div p)>>

\* (x * y) mod 2^16 for 16-bit x, y, with every intermediate below 2^31
MulLo16(x, y) == (((x % 256) * y) + ((((x \div 256) * y) % 256) * 256)) % Half

\* x * y for 16-bit x, y as <<hi, lo>>
MulFull16(x, y) ==
  LET q0 == (x % 256) * y
      q1 == (x \div 256) * y
      s  == q0 + (q1 % 256) * 256
  IN  <<(s \div Half) + (q1 \div 256), s % Half>>

\* Math.imul: the low 32 bits of the product
imul(a, b) ==
  LET ll == MulFull16(a[2], b[2])
  IN  <<(ll[1] + MulLo16(a[1], b[2]) + MulLo16(a[2], b[1])) % Half, ll[2]>>

\* a non-negative integer below 2^31 as a word (seed >>> 0)
ToWord(n) == <<n \div Half, n % Half>>

(***************************************************************************)
(* noise.js: mulberry32.  The closure's variable a is the stream state;    *)
(* one call adds 0x6D2B79F5 to it and mixes the sum into the draw.         *)
(***************************************************************************)
mulberry32Inc == <<27947, 31221>>          \* 0x6D2B79F5

mulberry32Step(a) == Add32(a, mulberry32Inc)

\* the 32-bit numerator of the draw made from the incremented state a
mulberry32Mix(a) ==
  LET t1 == imul(Xor32(a, Shr32(a, 15)), <<a[1], OrN(a[2], 1)>>)
      t2 == Xor32(t1, Add32(t1, imul(Xor32(t1, Shr32(t1, 7)),
                                     <<t1[1], OrN(t1[2], 61)>>)))
  IN  Xor32(t2, Shr32(t2, 14))

\* Math.floor(r * n) for the draw r = u / 2^32 and 1 <= n <= 256
FloorMul(u, n) == ((u[1] * n) + ((u[2] * n) \div Half)) \div Half

(***************************************************************************)
(* noise.js: Perlin._hashString (FNV-1a over the UTF-16 code units).       *)
(* A string is the sequence of its character codes.                        *)
(***************************************************************************)
fnvOffset == <<33052, 40389>>               \* 2166136261
fnvPrime  == <<256, 403>>                   \* 16777619

RECURSIVE hashFrom(_, _, _)
hashFrom(h, s, i) ==
  IF i > Len(s) THEN h
  ELSE hashFrom(imul(<<h[1], XorN(h[2], s[i])>>, fnvPrime), s, i + 1)

hashString(s) == hashFrom(fnvOffset, s, 1)

(***************************************************************************)
(* Seeds as the UI and the callers give them: a string (its character      *)
(* codes) or a non-negative integer.                                       *)
(***************************************************************************)
StrSeed(s) == [str |-> TRUE,  s |-> s,    n |-> 0]
IntSeed(n) == [str |-> FALSE, s |-> <<>>, n |-> n]

\* what the seed box gives startAll: "123456" (getParams' default) or "a"
SeedInputs == { StrSeed(<<49, 50, 51, 52, 53, 54>>), StrSeed(<<97>>) }

\* the word mulberry32 is seeded with
SeedWord(seed) == IF seed.str THEN hashString(seed.s) ELSE ToWord(seed.n)

(***************************************************************************)
(* Bounds of the model.  Times are counted in half seconds, so that the    *)
(* source's default bar of 7.5 s is the integer 15.                        *)
(***************************************************************************)
MaxTime   == 170      \* the playback clock stops advancing here
MaxStarts == 2        \* startAll calls that may be awaiting audio setup at once
MaxLoops  == 2        \* rAF loops that may be alive at once

BarChoices   == {5}         \* audio.getBarSeconds(): 2.5 s (a 96 BPM track)
FrameSteps   == {5, 10}     \* clock advance between two frames
StartOffsets == {0, 5}      \* audio.getTime() when a start completes (inOffset)

VARIABLES
  \* Visuals (recorder.js)
  visuals,          \* main.js: the Visuals object exists
  shape,            \* Visuals.shape
  rand,             \* the state word of Visuals.rand (mulberry32's a)
  _nextShapeAt,     \* 0 stands for undefined
  _barSeconds,      \* 0 stands for undefined
  \* main.js
  autoCycleShapes, rafId, running, uiShape, audio, now, starting, loops,
  \* observers of the scheduler
  seedIn,           \* the seed last given to setSeed
  fires,            \* automatic shape changes since the last setSeed
  fired,            \* the latest step was an update call that changed the shape
  framed,           \* the latest step was an update call
  deadlineSeen,     \* _nextShapeAt as that update call found it
  lastFireAt,       \* clock of the latest automatic change since arming, else -1
  prevFireSeen      \* lastFireAt as that update call found it

visVars  == <<visuals, shape, rand, _nextShapeAt, _barSeconds>>
mainVars == <<autoCycleShapes, rafId, running, uiShape, audio, now, starting, loops>>
obsVars  == <<seedIn, fires, fired, framed, deadlineSeen, lastFireAt, prevFireSeen>>

(***************************************************************************)
(* Visuals (recorder.js)                                                   *)
(***************************************************************************)
shapes == <<"sphere", "icosa", "torus", "plane", "box">>
Shapes == {shapes[i] : i \in 1..Len(shapes)}

PhraseBars == 16
DefaultBar == 15      \* 7.5 s

\* _scheduleNextShape(t, barSeconds): t + 16 * (barSeconds || 7.5)
scheduleFromDeadline(t, barSeconds) ==
  _nextShapeAt + PhraseBars * (IF barSeconds = 0 THEN DefaultBar ELSE barSeconds)
scheduleNextShape(t, barSeconds) ==
  t + PhraseBars * (IF barSeconds = 0 THEN DefaultBar ELSE barSeconds)

\* update: autoShape && this._nextShapeAt && t >= this._nextShapeAt
ShouldFireLate(autoShape, next, t) == autoShape /\ next # 0 /\ t > next
ShouldFire(autoShape, next, t) == autoShape /\ next # 0 /\ t >= next

\* setShape(shape): 'cycle' and the current shape change nothing
setShape(cur, s) == IF s = "cycle" \/ s = cur THEN cur ELSE s

\* the shape one draw selects: shapes[Math.floor(this.rand() * shapes.length)]
PickShape(u) == shapes[FloorMul(u, Len(shapes)) + 1]

\* the bar length a fire re-arms with: this._barSeconds || 7.5
RearmBar(bs) == IF bs = 0 THEN DefaultBar ELSE bs

\* update({t, autoShape}) on the scheduler's fields: the fields after the call
UpdateTwoDraws(sh, rd, nx, bs, t, autoShape) ==
  IF ShouldFire(autoShape, nx, t)
  THEN LET a == mulberry32Step(mulberry32Step(rd))
       IN  [shape |-> PickShape(mulberry32Mix(a)), rand |-> a,
            next |-> scheduleNextShape(t, RearmBar(bs)), fired |-> TRUE]
  ELSE [shape |-> sh, rand |-> rd, next |-> nx, fired |-> FALSE]
Update(sh, rd, nx, bs, t, autoShape) ==
  IF ShouldFire(autoShape, nx, t)
  THEN LET a == mulberry32Step(rd)
       IN  [shape |-> PickShape(mulberry32Mix(a)), rand |-> a,
            next |-> scheduleNextShape(t, RearmBar(bs)), fired |-> TRUE]
  ELSE [shape |-> sh, rand |-> rd, next |-> nx, fired |-> FALSE]

(***************************************************************************)
(* AudioEngine (audio.js): one engine object and the browser around it.    *)
(* Times are in milliseconds.                                              *)
(***************************************************************************)
VARIABLES
  mode,             \* 'uploaded' | 'procedural'
  ctx,              \* the AudioContext (with mix, analyser, streamDest) exists
  buffer,           \* the decoded track's duration, 0 for null
  analysis,         \* the track's analysis, NoAnalysis for null
  source,           \* a BufferSource is held
  proc,             \* a MusicSystemTone is held
  startTime, inOffset, _toneConnected,
  \* the browser
  currentTime,      \* ctx.currentTime
  Tone,             \* window.Tone is loaded
  transport,        \* Tone.Transport: [running, seconds, bpm]
  tap,              \* rms of the analyser's latest window, in hundredths
  \* the async call in flight on the engine, and its argument
  call, arg,
  \* observers
  startDone,        \* a start call has completed on this engine
  active,           \* a start completed and stop() was not called since
  stopped           \* stop() ended a started session and no start was called since

engineVars  == <<mode, ctx, buffer, analysis, source, proc, startTime, inOffset,
                 _toneConnected>>
browserVars == <<currentTime, Tone, transport, tap>>
audVars     == <<engineVars, browserVars, call, arg, startDone, active, stopped>>

(***************************************************************************)
(* analyzeBuffer (analyze.js): one analysis of one decoded buffer.         *)
(***************************************************************************)
VARIABLES
  wave,             \* the buffer under analysis
  nFrames,          \* number of RMS frames
  flux,             \* the smoothed onset envelope, scaled by FluxScale
  bpm,              \* the tempo scan's candidate
  bestBpm, bestScore, bestLag,
  beatIdx,          \* the grid loop's i
  beatFrames,       \* the grid collected so far
  pc                \* "idle", "tempo", "origin", "grid", "done"

anaVars == <<wave, nFrames, flux, bpm, bestBpm, bestScore, bestLag, beatIdx,
             beatFrames, pc>>

(***************************************************************************)
(* Perlin (noise.js): two fields, constructed and seeded independently.    *)
(***************************************************************************)
VARIABLES
  fieldA, fieldB,   \* [made, seed, _seed, _perm], and the setSeed calls so far
  at,               \* the coordinate noise3 is read at, in half units
  fbmCall           \* the fbm3 call on field A made in the latest step, if any

perlinVars == <<fieldA, fieldB, at, fbmCall>>

(***************************************************************************)
(* Visuals (recorder.js): the mesh, the style and the smoothed level of one *)
(* Visuals object, driven through its methods.                              *)
(***************************************************************************)
VARIABLES
  style,            \* this.style: the numeric fields in hundredths, and shapeBias
  basePositions,    \* this.basePositions, three coordinates per vertex
  positions,        \* mesh.geometry.attributes.position.array, in 1 / PosUnit
  level,            \* this.level as a Ratio, NoLevel while undefined
  rotation,         \* mesh.rotation: y in units of 0.016 / 200, x of 0.009 / 200
  \* observers
  op,               \* the method the latest step ran
  args,             \* its argument
  again,            \* it was an update given what the update just before it was
  fresh,            \* the mesh was built after the latest displacement
  frames            \* update calls so far

meshVars == <<style, basePositions, positions, level, rotation, op, args, again, fresh,
              frames>>

(***************************************************************************)
(* main.js: the controls, the recorder and the timer of renderTake.  A      *)
(* session is named by the number of its AudioEngine, 0 for none; a         *)
(* MediaRecorder by the number of the recorder.start call that made it.     *)
(***************************************************************************)
VARIABLES
  engines,          \* AudioEngine objects made so far
  current,          \* the engine the global audio names, 0 for null
  sessionOn,        \* startAll has finished for that engine
  pending,          \* the startAll call that is at its await, if any
  recorder,         \* the global recorder: [of, mr, state]
  recordings,       \* MediaRecorder objects made so far
  stopping,         \* the stopRecord calls waiting for the stop event
  timers,           \* the timers of renderTake that have not expired
  disabled,         \* ui.*.disabled of the five buttons
  lastRecordingBlob,\* the recording the blob holds, 0 for null
  expiry,           \* the latest expiry: the take's session, the session whose
                    \* recording it stopped and the running session it stopped
  threw             \* the latest step ended in an exception

takeVars == <<engines, current, sessionOn, pending, recorder, recordings, stopping,
              timers, disabled, lastRecordingBlob, expiry, threw>>

\* the variables the session model leaves alone
offSession == <<audVars, anaVars, perlinVars, meshVars, takeVars>>

(***************************************************************************)
(* main.js: the session.  audio is the module's global: "null", "new" (an  *)
(* engine whose start is still awaited) or "started"; now is what          *)
(* audio.getTime() returns.  starting counts the startAll calls that are   *)
(* awaiting audio setup, loops the rAF loops that are alive.               *)
(***************************************************************************)
SelectorChoices == {"cycle", "torus"}      \* values of the shape selector
PromptShapes    == {"box"}                 \* shapes a prompt may name

\* a step that is no update call
NoFrame == fired' = FALSE /\ framed' = FALSE /\ deadlineSeen' = 0 /\ prevFireSeen' = -1

\* startAll up to its first await: getParams, initVisuals (the constructor on
\* first use, then setSeed), the shape pin, audio = new AudioEngine()
BeforeAwait(seed) ==
  /\ visuals' = TRUE
  /\ rand' = SeedWord(seed) /\ seedIn' = seed /\ fires' = 0
  /\ shape' = setShape(IF visuals THEN shape ELSE "sphere", uiShape)
  /\ autoCycleShapes' = (uiShape = "cycle")
  /\ audio' = "new" /\ now' = 0
  /\ NoFrame
  /\ UNCHANGED <<_nextShapeAt, _barSeconds, uiShape, lastFireAt>>

StartBegin(seed) ==
  /\ UNCHANGED offSession
  /\ ~running /\ starting < MaxStarts
  /\ BeforeAwait(seed)
  /\ starting' = starting + 1
  /\ UNCHANGED <<rafId, running, loops>>

\* startAll in uploaded mode with no file chosen: it throws after the engine
\* was replaced, so nothing is awaited and nothing after the await runs
StartNoFile(seed) ==
  /\ UNCHANGED offSession
  /\ ~running
  /\ BeforeAwait(seed)
  /\ UNCHANGED <<starting, rafId, running, loops>>

\* startAll after its awaits: setBarSeconds, scheduleAutoShape when cycling,
\* the recorder, the first loop() call (one update), enableRunButtons(true)
AfterAwait(t, bar) ==
  LET nx == IF autoCycleShapes THEN scheduleNextShape(t, bar) ELSE _nextShapeAt
      u  == Update(shape, rand, nx, bar, t, autoCycleShapes)
      lf == IF autoCycleShapes THEN -1 ELSE lastFireAt
  IN  /\ _barSeconds' = bar
      /\ shape' = u.shape /\ rand' = u.rand /\ _nextShapeAt' = u.next
      /\ fired' = u.fired /\ framed' = TRUE /\ deadlineSeen' = nx
      /\ prevFireSeen' = lf /\ lastFireAt' = IF u.fired THEN t ELSE lf
      /\ fires' = IF u.fired THEN fires + 1 ELSE fires
      /\ loops' = loops + 1 /\ rafId' = 1 /\ running' = TRUE
      /\ starting' = starting - 1

\* the start of the engine audio names completes
StartFinish(t0, bar) ==
  /\ UNCHANGED offSession
  /\ starting > 0 /\ audio = "new" /\ loops < MaxLoops
  /\ audio' = "started" /\ now' = t0
  /\ AfterAwait(t0, bar)
  /\ UNCHANGED <<visuals, autoCycleShapes, uiShape, seedIn>>

\* the start of an engine that audio no longer names completes: with audio
\* null the call throws at audio.getBarSeconds(), otherwise it goes on with the
\* engine audio names now
OrphanFinish(bar) ==
  /\ UNCHANGED offSession
  /\ starting > (IF audio = "new" THEN 1 ELSE 0) /\ loops < MaxLoops
  /\ IF audio = "null"
     THEN /\ starting' = starting - 1
          /\ NoFrame
          /\ UNCHANGED <<visVars, autoCycleShapes, rafId, running, uiShape, audio,
                         now, loops, seedIn, fires, lastFireAt>>
     ELSE /\ AfterAwait(now, bar)
          /\ UNCHANGED <<visuals, autoCycleShapes, uiShape, audio, now, seedIn>>

\* one rAF callback: loop() reads the clock and calls visuals.update; with audio
\* null audio.getTime() throws and the loop is not scheduled again
Frame ==
  /\ UNCHANGED offSession
  /\ loops > 0
  /\ IF audio = "null"
     THEN /\ loops' = loops - 1
          /\ NoFrame
          /\ UNCHANGED <<visVars, autoCycleShapes, rafId, running, uiShape, audio,
                         now, starting, seedIn, fires, lastFireAt>>
     ELSE LET u == Update(shape, rand, _nextShapeAt, _barSeconds, now, autoCycleShapes)
          IN  /\ shape' = u.shape /\ rand' = u.rand /\ _nextShapeAt' = u.next
              /\ fired' = u.fired /\ framed' = TRUE /\ deadlineSeen' = _nextShapeAt
              /\ prevFireSeen' = lastFireAt
              /\ lastFireAt' = IF u.fired THEN now ELSE lastFireAt
              /\ fires' = IF u.fired THEN fires + 1 ELSE fires
              /\ rafId' = 1
              /\ UNCHANGED <<visuals, _barSeconds, autoCycleShapes, running, uiShape,
                             audio, now, starting, loops, seedIn>>

\* the playback clock advances while the engine plays
Tick(dt) ==
  /\ UNCHANGED offSession
  /\ audio = "started" /\ now + dt <= MaxTime
  /\ now' = now + dt
  /\ NoFrame
  /\ UNCHANGED <<visVars, autoCycleShapes, rafId, running, uiShape, audio, starting,
                 loops, seedIn, fires, lastFireAt>>

\* stopAll: cancel the frame rafId names, stop and drop the engine, disable the
\* run buttons
StopAll ==
  /\ UNCHANGED offSession
  /\ rafId' = 0
  /\ loops' = IF rafId # 0 /\ loops > 0 THEN loops - 1 ELSE loops
  /\ audio' = "null" /\ running' = FALSE
  /\ NoFrame
  /\ UNCHANGED <<visVars, autoCycleShapes, uiShape, now, starting, seedIn, fires,
                 lastFireAt>>

\* renderTake up to its first await: stopAll(), then startAll up to its await
\* (the Render Take button is enabled while a session runs)
RenderTake(seed) ==
  /\ UNCHANGED offSession
  /\ running /\ starting < MaxStarts
  /\ rafId' = 0
  /\ loops' = IF rafId # 0 /\ loops > 0 THEN loops - 1 ELSE loops
  /\ running' = FALSE
  /\ BeforeAwait(seed)
  /\ starting' = starting + 1

\* the shape selector's change listener: if (s !== 'cycle') visuals?.setShape(s)
ShapeSelect(s) ==
  /\ UNCHANGED offSession
  /\ s # uiShape
  /\ uiShape' = s
  /\ shape' = IF visuals THEN setShape(shape, s) ELSE shape
  /\ NoFrame
  /\ UNCHANGED <<visuals, rand, _nextShapeAt, _barSeconds, autoCycleShapes, rafId,
                 running, audio, now, starting, loops, seedIn, fires, lastFireAt>>

\* the prompt button: visuals?.applyStyle(style), whose shapeBias (when the
\* prompt names a shape) goes to setShape
ApplyPrompt(bias) ==
  /\ UNCHANGED offSession
  /\ visuals /\ bias # shape
  /\ shape' = setShape(shape, bias)
  /\ NoFrame
  /\ UNCHANGED <<visuals, rand, _nextShapeAt, _barSeconds, mainVars, seedIn, fires,
                 lastFireAt>>

vars == <<visVars, mainVars, obsVars, audVars, anaVars, perlinVars, meshVars, takeVars>>

\* the session before the first start
SessionInit ==
  /\ visuals = FALSE /\ shape = "sphere" /\ rand = <<0, 0>>
  /\ _nextShapeAt = 0 /\ _barSeconds = 0
  /\ autoCycleShapes = TRUE /\ rafId = 0 /\ running = FALSE
  /\ uiShape = "cycle"
  /\ audio = "null" /\ now = 0 /\ starting = 0 /\ loops = 0
  /\ seedIn = IntSeed(0) /\ fires = 0
  /\ fired = FALSE /\ framed = FALSE /\ deadlineSeen = 0
  /\ lastFireAt = -1 /\ prevFireSeen = -1

\* new AudioEngine(), in a page that has not loaded Tone
NoAnalysis == [loaded |-> FALSE, bpm |-> 0, beatTimes |-> <<>>]
DefaultTransport == [running |-> FALSE, seconds |-> 0, bpm |-> 120]
EngineInit ==
  /\ mode = "uploaded" /\ ctx = FALSE /\ buffer = 0 /\ analysis = NoAnalysis
  /\ source = FALSE /\ proc = FALSE /\ startTime = 0 /\ inOffset = 0
  /\ _toneConnected = FALSE
  /\ currentTime = 0 /\ Tone = FALSE /\ transport = DefaultTransport /\ tap = 0
  /\ call = "none" /\ arg = 0
  /\ startDone = FALSE /\ active = FALSE /\ stopped = FALSE

\* no buffer is under analysis
NoWave == [sr |-> 44100, len |-> 0, n |-> 0, phase |-> 0, period |-> 1, amp |-> 0]
NegInfinity == [ninf |-> TRUE, num |-> 0, den |-> 1]
AnalyzeIdle ==
  /\ wave = NoWave /\ nFrames = 0 /\ flux = <<>> /\ bpm = 0
  /\ bestBpm = 0 /\ bestScore = NegInfinity /\ bestLag = 0
  /\ beatIdx = 0 /\ beatFrames = <<>> /\ pc = "idle"

\* no Perlin field exists yet
NoField == [made |-> FALSE, seed |-> IntSeed(0), _seed |-> <<0, 0>>, _perm |-> <<>>,
            seedings |-> 0]
NoCall == [octaves |-> 0, lacunarity |-> 0, gain |-> 0, sum |-> 0]
PerlinIdle == fieldA = NoField /\ fieldB = NoField /\ at = <<0, 0, 0>> /\ fbmCall = NoCall

\* no Visuals object exists yet
NoLevel == <<0, 0>>
NoArgs == [t |-> 0]
MeshIdle ==
  /\ style = [shapeBias |-> "null"] /\ basePositions = <<>> /\ positions = <<>>
  /\ level = NoLevel /\ rotation = 0
  /\ op = "none" /\ args = NoArgs /\ again = FALSE /\ fresh = FALSE /\ frames = 0

\* the page before the first click: only Start can be pressed
NoPending  == [id |-> 0, take |-> FALSE]
NoRecorder == [of |-> 0, mr |-> 0, state |-> "inactive"]
NoExpiry   == [owner |-> 0, cut |-> 0, stopped |-> 0]
TakeIdle ==
  /\ engines = 0 /\ current = 0 /\ sessionOn = FALSE /\ pending = NoPending
  /\ recorder = NoRecorder /\ recordings = 0 /\ stopping = {} /\ timers = {}
  /\ disabled = [start |-> FALSE, stop |-> TRUE, record |-> TRUE,
                 stopRecord |-> TRUE, renderTake |-> TRUE]
  /\ lastRecordingBlob = 0 /\ expiry = NoExpiry /\ threw = FALSE

Init == SessionInit /\ EngineInit /\ AnalyzeIdle /\ PerlinIdle /\ MeshIdle /\ TakeIdle

Next ==
  \/ \E seed \in SeedInputs : StartBegin(seed)
  \/ \E seed \in SeedInputs : StartNoFile(seed)
  \/ \E t0 \in StartOffsets, bar \in BarChoices : StartFinish(t0, bar)
  \/ \E bar \in BarChoices : OrphanFinish(bar)
  \/ Frame
  \/ \E dt \in FrameSteps : Tick(dt)
  \/ StopAll
  \/ \E seed \in SeedInputs : RenderTake(seed)
  \/ \E s \in SelectorChoices : ShapeSelect(s)
  \/ \E bias \in PromptShapes : ApplyPrompt(bias)

Spec == Init /\ [][Next]_vars

(***************************************************************************)
(* The shape-cycle scheduler                                               *)
(***************************************************************************)
\* C1: an update call changes the shape automatically exactly when cycling is
\* on and the clock has reached the armed _nextShapeAt, never below it; the
\* change re-arms a full phrase ahead, so that two automatic changes are at
\* least a phrase apart and no reached deadline is left standing after a frame
C1_FiresOncePerCrossing ==
  framed =>
    /\ fired <=> (autoCycleShapes /\ deadlineSeen # 0 /\ now >= deadlineSeen)
    /\ fired => /\ _nextShapeAt = now + PhraseBars * RearmBar(_barSeconds)
                /\ lastFireAt = now
    /\ (fired /\ prevFireSeen # -1) =>
          now - prevFireSeen >= PhraseBars * RearmBar(_barSeconds)
    /\ (autoCycleShapes /\ _nextShapeAt # 0) => now < _nextShapeAt

\* a second automatic change, found by a frame that overshot its deadline
C1_SecondCrossing ==
  framed /\ fired /\ prevFireSeen # -1 /\ now > deadlineSeen

\* C2: while the selector holds a specific shape, no update call changes the
\* shape automatically
C2_PinnedNeverFires == (uiShape # "cycle") => ~fired

\* C14: at most one rAF update loop is scheduled at any time, and none is left
\* scheduled once stopAll has run (audio is null from stopAll to the next start)
C14_SingleLoop == loops <= 1 /\ (audio = "null" => loops = 0)

\* the mulberry32 state k draws after seeding with a
RECURSIVE Advance(_, _)
Advance(a, k) == IF k = 0 THEN a ELSE Advance(mulberry32Step(a), k - 1)

\* C9: the stream stands exactly as many draws after the seed as automatic
\* changes happened since setSeed, and the k-th automatic change selects, among
\* the five shapes, the one the k-th draw of the seed's stream picks
C9_ShapesFromSeed ==
  visuals =>
    /\ rand = Advance(SeedWord(seedIn), fires)
    /\ fired =>
         /\ shape = shapes[FloorMul(mulberry32Mix(Advance(SeedWord(seedIn), fires)), 5) + 1]
         /\ shape \in {"sphere", "icosa", "torus", "plane", "box"}

\* the second automatic change of a Visuals seeded with a string
C9_SecondPick == fired /\ fires = 2 /\ seedIn.str

(***************************************************************************)
(* AudioEngine (audio.js)                                                  *)
(***************************************************************************)
MaxClock == 1000      \* ctx.currentTime stops advancing here

ClockSteps     == {50, 150}            \* time between two observations
TrackDurations == {1200}               \* buffer.duration of the uploaded file
OffsetChoices  == {0, 500, 2000}       \* startUploaded's inOffset
ProcBpms       == {100, 120}           \* startProcedural's bpm
RmsChoices     == {0, 40}              \* rms of a window that carries signal

\* what analyzeBuffer gave for the uploaded file
AnalysisChoices ==
  { [loaded |-> TRUE, bpm |-> 120, beatTimes |-> <<100, 600, 1100>>],
    [loaded |-> TRUE, bpm |-> 96,  beatTimes |-> <<0, 625>>] }

Min(a, b) == IF a < b THEN a ELSE b
Max(a, b) == IF a > b THEN a ELSE b
Abs(a)    == IF a < 0 THEN -a ELSE a
clamp(v, lo, hi) == Max(lo, Min(hi, v))

RECURSIVE Gcd(_, _)
Gcd(a, b) == IF b = 0 THEN a ELSE Gcd(b, a % b)

\* the number n / d, for n >= 0 and d > 0, in lowest terms
Ratio(n, d) == <<n \div Gcd(n, d), d \div Gcd(n, d)>>

\* getDuration() in uploaded mode (getTime calls it in no other)
getDuration == IF mode = "uploaded" /\ buffer # 0 THEN buffer ELSE 0

\* getTime(), in ms
getTimeUncapped ==
  IF ~ctx THEN 0
  ELSE IF mode = "uploaded" THEN currentTime - startTime + inOffset
  ELSE IF mode = "procedural" /\ Tone THEN transport.seconds
  ELSE 0
getTime ==
  IF ~ctx THEN 0
  ELSE IF mode = "uploaded"
       THEN Min(currentTime - startTime + inOffset, getDuration)
  ELSE IF mode = "procedural" /\ Tone THEN transport.seconds
  ELSE 0

\* getLevel(), in thousandths: clamp(rms * 4.5, 0, 1)
getLevel == IF ~ctx THEN 0 ELSE clamp(tap * 45, 0, 1000)

\* the binary search of getBeatPulse: the first index whose beat is not below t
\* (0-based, beats.length when there is none)
RECURSIVE lowerBound(_, _, _, _)
lowerBound(beats, t, lo, hi) ==
  IF lo > hi THEN lo
  ELSE LET mid == (lo + hi) \div 2
       IN  IF beats[mid + 1] < t THEN lowerBound(beats, t, mid + 1, hi)
           ELSE lowerBound(beats, t, lo, mid - 1)

width == 120      \* ms

\* getBeatPulse(), as a Ratio
getBeatPulse ==
  IF mode = "procedural" /\ Tone
  THEN LET beat == 60000 \div transport.bpm          \* Tone.Time('4n')
           r    == getTime % beat
       IN  IF 20 * r < 3 * beat THEN Ratio(3 * beat - 20 * r, 3 * beat)
           ELSE Ratio(0, 1)
  ELSE IF mode = "uploaded" /\ analysis.loaded
  THEN LET t     == getTime
           beats == analysis.beatTimes
       IN  IF Len(beats) = 0 THEN Ratio(0, 1)
           ELSE LET lo  == lowerBound(beats, t, 0, Len(beats) - 1)
                    idx == Max(0, Min(Len(beats) - 1, lo))
                    d   == Abs(t - beats[idx + 1])
                IN  IF d < width THEN Ratio(width - d, width) ELSE Ratio(0, 1)
  ELSE Ratio(0, 1)

\* getBarSeconds(), in ms
getBarSeconds ==
  IF mode = "procedural" /\ Tone THEN 240000 \div transport.bpm   \* Tone.Time('1m')
  ELSE IF mode = "uploaded" /\ analysis.loaded THEN 240000 \div analysis.bpm
  ELSE 2000

sessionVars == <<visVars, mainVars, obsVars>>
offAudio == <<sessionVars, anaVars, perlinVars, meshVars, takeVars>>
offAnalyze == <<sessionVars, audVars, perlinVars, meshVars, takeVars>>

\* Tone.Transport after stop(): proc.stop() stops the transport, which rewinds it
transportAfterStop ==
  IF proc THEN [transport EXCEPT !.running = FALSE, !.seconds = 0] ELSE transport

\* loadFile up to its awaits: ensureContext creates the context
LoadBegin ==
  /\ call = "none"
  /\ ctx' = TRUE /\ call' = "loadFile"
  /\ UNCHANGED <<mode, buffer, analysis, source, proc, startTime, inOffset,
                 _toneConnected, browserVars, arg, startDone, active, stopped,
                 offAudio>>

\* loadFile after decoding: the buffer and its analysis are stored
LoadDone(dur, an) ==
  /\ call = "loadFile"
  /\ buffer' = dur /\ analysis' = an /\ call' = "none"
  /\ UNCHANGED <<mode, ctx, source, proc, startTime, inOffset, _toneConnected,
                 browserVars, arg, startDone, active, stopped, offAudio>>

\* startUploaded up to its await (without a buffer it throws at once)
UplBegin(off) ==
  /\ call = "none" /\ buffer # 0
  /\ ctx' = TRUE /\ call' = "startUploaded" /\ arg' = off /\ stopped' = FALSE
  /\ UNCHANGED <<mode, buffer, analysis, source, proc, startTime, inOffset,
                 _toneConnected, browserVars, startDone, active, offAudio>>

\* startUploaded after its await: stop(), then the new source starts
UplDone ==
  /\ call = "startUploaded"
  /\ mode' = "uploaded"
  /\ inOffset' = clamp(arg, 0, Max(0, buffer - 1))
  /\ source' = TRUE /\ proc' = FALSE /\ _toneConnected' = FALSE
  /\ transport' = transportAfterStop
  /\ startTime' = currentTime
  /\ call' = "none" /\ startDone' = TRUE /\ active' = TRUE /\ stopped' = FALSE
  /\ UNCHANGED <<ctx, buffer, analysis, currentTime, Tone, tap, arg, offAudio>>

\* startProcedural up to await ensureTone()
ProcBegin(bpmVal) ==
  /\ call = "none"
  /\ call' = "ensureTone" /\ arg' = bpmVal /\ stopped' = FALSE
  /\ UNCHANGED <<engineVars, browserVars, startDone, active, offAudio>>

\* Tone is loaded; ensureContext runs up to its await
ProcTone ==
  /\ call = "ensureTone"
  /\ Tone' = TRUE /\ ctx' = TRUE /\ call' = "ensureContext"
  /\ UNCHANGED <<mode, buffer, analysis, source, proc, startTime, inOffset,
                 _toneConnected, currentTime, transport, tap, arg, startDone, active,
                 stopped, offAudio>>

\* stop(); this.mode = 'procedural'; then await Tone.start()
ProcMode ==
  /\ call = "ensureContext"
  /\ mode' = "procedural"
  /\ source' = FALSE /\ proc' = FALSE /\ _toneConnected' = FALSE
  /\ transport' = transportAfterStop
  /\ call' = "Tone.start"
  /\ UNCHANGED <<ctx, buffer, analysis, startTime, inOffset, currentTime, Tone, tap,
                 arg, startDone, active, stopped, offAudio>>

\* this.proc = new MusicSystemTone(); proc.start runs up to its awaits
ProcBuild ==
  /\ call = "Tone.start"
  /\ proc' = TRUE /\ call' = "proc.start"
  /\ UNCHANGED <<mode, ctx, buffer, analysis, source, startTime, inOffset,
                 _toneConnected, browserVars, arg, startDone, active, stopped,
                 offAudio>>

\* proc.start after its awaits (the transport is rewound, set to bpm and
\* started), then Tone's output is routed into the mix and startTime is taken
ProcDone ==
  /\ call = "proc.start"
  /\ transport' = [running |-> TRUE, seconds |-> 0, bpm |-> arg]
  /\ _toneConnected' = TRUE
  /\ startTime' = currentTime
  /\ call' = "none" /\ startDone' = TRUE /\ active' = TRUE /\ stopped' = FALSE
  /\ UNCHANGED <<mode, ctx, buffer, analysis, source, proc, inOffset, currentTime,
                 Tone, tap, arg, offAudio>>

\* stop()
Stop ==
  /\ source' = FALSE /\ proc' = FALSE
  /\ _toneConnected' = (IF Tone THEN FALSE ELSE _toneConnected)
  /\ transport' = transportAfterStop
  /\ active' = FALSE /\ stopped' = (active \/ stopped)
  /\ UNCHANGED <<mode, ctx, buffer, analysis, startTime, inOffset, currentTime, Tone,
                 tap, call, arg, startDone, offAudio>>

\* time passes: the context clock and a running transport advance, and the
\* analyser's window is refilled from whatever feeds the mix
ClockAdvance(dt, rms) ==
  /\ ctx /\ currentTime + dt <= MaxClock
  /\ currentTime' = currentTime + dt
  /\ transport' = IF transport.running
                  THEN [transport EXCEPT !.seconds = transport.seconds + dt]
                  ELSE transport
  /\ tap' = IF source \/ (_toneConnected /\ transport.running) THEN rms ELSE 0
  /\ UNCHANGED <<engineVars, Tone, call, arg, startDone, active, stopped, offAudio>>

NextAudio ==
  \/ LoadBegin
  \/ \E dur \in TrackDurations, an \in AnalysisChoices : LoadDone(dur, an)
  \/ \E off \in OffsetChoices : UplBegin(off)
  \/ UplDone
  \/ \E bpmVal \in ProcBpms : ProcBegin(bpmVal)
  \/ ProcTone
  \/ ProcMode
  \/ ProcBuild
  \/ ProcDone
  \/ Stop
  \/ \E dt \in ClockSteps, rms \in RmsChoices : ClockAdvance(dt, rms)

SpecAudio == Init /\ [][NextAudio]_vars

\* the distance from t to the nearest of the beats, on either side
RECURSIVE nearest(_, _, _)
nearest(beats, t, i) ==
  IF i = Len(beats) THEN Abs(t - beats[i])
  ELSE Min(Abs(t - beats[i]), nearest(beats, t, i + 1))

\* C3: in uploaded mode with a non-empty beat grid the pulse is 1 - d/0.12 for
\* d < 0.12 s and 0 otherwise, d being the distance to the nearest beat before
\* or after the current time
C3_TrianglePulse ==
  (mode = "uploaded" /\ analysis.loaded /\ Len(analysis.beatTimes) > 0) =>
    LET d == nearest(analysis.beatTimes, getTime, 1)
    IN  getBeatPulse = IF d < 120 THEN Ratio(120 - d, 120) ELSE Ratio(0, 1)

\* C4: once stop() has ended a started session, getTime() and getLevel() are 0
\* until the next start
C4_QuietAfterStop ==
  (stopped /\ call = "none") => (getTime = 0 /\ getLevel = 0)

\* C5: an engine with no file loaded and no start completed reports no pulse,
\* a 2.0 s bar, time 0 and level 0
C5_DefaultsBeforeStart ==
  (buffer = 0 /\ ~startDone) =>
    /\ getBeatPulse = Ratio(0, 1)
    /\ getBarSeconds = 2000
    /\ getTime = 0
    /\ getLevel = 0

\* C15: whatever start and stop calls were made and however their awaits
\* interleave, the uploaded buffer source and the procedural music system (the
\* MusicSystemTone the engine holds, or the Tone transport it set running) are
\* never active together, and mode changes only in a step of a start call
C15_OneModeActive ==
  [][ /\ ~(source' /\ (proc' \/ transport'.running))
      /\ (mode' # mode) => call \in {"startUploaded", "ensureContext"} ]_vars

\* C20: in uploaded mode, once startUploaded has completed, getTime() is the
\* smaller of elapsed + offset and the track's duration, the offset being the
\* inOffset argument clamped to [0, duration - 0.001]; it is the offset when the
\* start completes, never decreases while the clock advances and never exceeds
\* the duration
C20_UploadedClock ==
  [][ (mode' = "uploaded" /\ startDone') =>
        /\ getTime' = Min(currentTime' - startTime' + inOffset', buffer')
        /\ 0 <= inOffset' /\ inOffset' <= buffer' - 1
        /\ inOffset' <= getTime' /\ getTime' <= buffer'
        /\ (call = "startUploaded" /\ call' = "none") =>
              /\ inOffset' = Max(0, Min(arg, buffer - 1))
              /\ getTime' = inOffset'
        /\ (mode = "uploaded" /\ startDone /\ currentTime' > currentTime) =>
              getTime' >= getTime ]_vars

\* a start past the end plays from the last millisecond, and a start at 0.5 s
\* has reached the end of the track
C20_ReachedTrackEnd ==
  /\ mode = "uploaded" /\ startDone /\ arg = 2000 /\ inOffset = buffer - 1
  /\ getTime = buffer /\ currentTime > startTime

(***************************************************************************)
(* analyzeBuffer (analyze.js).  A buffer is a train of n single-sample      *)
(* clicks of amplitude amp, period samples apart from sample phase on, in   *)
(* len samples of silence (n = 0: a silent buffer), equal on all channels.  *)
(* flux is kept as exact multiples of 1 / FluxScale.                        *)
(***************************************************************************)
hop == 512
win == 1024
bpmMin == 70
bpmMax == 180
FluxScale == 8 * 9 * 5 * 7 * 11     \* the least common multiple of the window sizes 1..11
MaxGrid == 32         \* the grid loop is followed for this many beats

Waves ==
  { [sr |-> 44100, len |-> 0,      n |-> 0, phase |-> 0,    period |-> 1,     amp |-> 0],
    [sr |-> 44100, len |-> 15872,  n |-> 0, phase |-> 0,    period |-> 1,     amp |-> 0],
    [sr |-> 44100, len |-> 16384,  n |-> 0, phase |-> 0,    period |-> 1,     amp |-> 0],
    [sr |-> 44100, len |-> 30000,  n |-> 0, phase |-> 0,    period |-> 1,     amp |-> 0],
    [sr |-> 44100, len |-> 110250, n |-> 5, phase |-> 4000, period |-> 22050, amp |-> 32],
    [sr |-> 44100, len |-> 66150,  n |-> 3, phase |-> 4074, period |-> 22050, amp |-> 32],
    [sr |-> 22050, len |-> 55125,  n |-> 5, phase |-> 106,  period |-> 11025, amp |-> 32] }

\* the samples that carry a click
clicksOf(w) == {w.phase + k * w.period : k \in 0..(w.n - 1)}

\* Math.max(1, Math.floor((len - win) / hop))
framesOf(len) == Max(1, (len - win) \div hop)

\* the square root of a perfect square
sqrt(q) == CHOOSE r \in 0..q : r * r = q

\* rms[f] = Math.sqrt(sum / win) over the window of frame f (samples past the
\* end count as 0)
rmsOf(w, f) ==
  LET hits == {c \in clicksOf(w) : f * hop <= c /\ c < f * hop + win /\ c < w.len}
  IN  sqrt((Cardinality(hits) * w.amp * w.amp) \div win)

\* the half-wave rectified difference of the RMS, frame f
rawFlux(w, f) ==
  IF f = 0 THEN 0
  ELSE LET d == rmsOf(w, f) - rmsOf(w, f - 1) IN IF d > 0 THEN d ELSE 0

RECURSIVE sumSeq(_, _, _)
sumSeq(x, lo, hi) == IF lo > hi THEN 0 ELSE x[lo] + sumSeq(x, lo + 1, hi)

\* smoothInPlace(arr, radius): the mean over the part of i - radius .. i + radius
\* that lies in the array (arr holds frame f at index f + 1)
smoothInPlace(arr, radius) ==
  [k \in 1..Len(arr) |->
     LET lo == Max(1, k - radius)
         hi == Min(Len(arr), k + radius)
     IN  (sumSeq(arr, lo, hi) * FluxScale) \div (hi - lo + 1)]

\* flux as the tempo scan reads it
fluxOf(w) ==
  LET N == framesOf(w.len)
  IN  smoothInPlace([k \in 1..N |-> rawFlux(w, k - 1)], 5)

\* Math.round((60 / bpm * sr) / hop)
lagOf(b, sr) == (120 * sr + hop * b) \div (2 * hop * b)

\* dotAtLag(x, lag): -Infinity for a lag outside 1 .. length - 1, else the mean
\* product, kept as the fraction num / den
RECURSIVE dotSum(_, _, _, _)
dotSum(x, lag, lo, hi) ==
  IF lo > hi THEN 0
  ELSE IF lo = hi THEN x[lo] * x[lo - lag]
  ELSE LET mid == (lo + hi) \div 2
       IN  dotSum(x, lag, lo, mid) + dotSum(x, lag, mid + 1, hi)

dotAtLag(x, lag) ==
  IF lag <= 0 \/ lag >= Len(x) THEN NegInfinity
  ELSE [ninf |-> FALSE, num |-> dotSum(x, lag, lag + 1, Len(x)), den |-> Len(x) - lag]

\* score > bestScore
Greater(a, b) ==
  IF a.ninf THEN FALSE
  ELSE IF b.ninf THEN TRUE
  ELSE LET qa == a.num \div a.den
           qb == b.num \div b.den
       IN  IF qa # qb THEN qa > qb
           ELSE (a.num % a.den) * b.den > (b.num % b.den) * a.den

\* median(a): element floor(length / 2) of the sorted values, 0 for none
median(a) ==
  IF Len(a) = 0 THEN 0
  ELSE LET m == Len(a) \div 2
       IN  CHOOSE v \in {a[k] : k \in 1..Len(a)} :
             /\ Cardinality({k \in 1..Len(a) : a[k] < v}) <= m
             /\ Cardinality({k \in 1..Len(a) : a[k] <= v}) > m

\* pickPeaks(arr, 0.6 * med): the frames, in order, that rise above the
\* threshold and their left neighbour without falling below their right one
isPeak(arr, med, f) ==
  /\ 5 * arr[f + 1] > 3 * med
  /\ arr[f + 1] > arr[f]
  /\ arr[f + 1] >= arr[f + 2]

RECURSIVE peaksIn(_, _, _, _)
peaksIn(arr, med, lo, hi) ==
  IF lo > hi THEN <<>>
  ELSE IF lo = hi THEN (IF isPeak(arr, med, lo) THEN <<lo>> ELSE <<>>)
  ELSE LET mid == (lo + hi) \div 2
       IN  peaksIn(arr, med, lo, mid) \o peaksIn(arr, med, mid + 1, hi)

pickPeaks(arr, med) == peaksIn(arr, med, 1, Len(arr) - 2)

\* alignmentScore(flux, start, lag, beats)
RECURSIVE alignFrom(_, _, _, _, _)
alignFrom(x, start, lag, beats, k) ==
  IF k >= beats THEN 0
  ELSE LET idx == start + k * lag
       IN  (IF idx >= 0 /\ idx < Len(x) THEN x[idx + 1] ELSE 0)
           + alignFrom(x, start, lag, beats, k + 1)

alignmentScore(x, start, lag, beats) == alignFrom(x, start, lag, beats, 0)

\* the refinement loop over the first 200 peaks: the first peak of the largest
\* alignment (bestAlign starts at -Infinity, so the first peak always enters)
RECURSIVE refine(_, _, _, _, _, _)
refine(x, peaks, lag, k, bestStart, bestAlign) ==
  IF k > Min(200, Len(peaks)) THEN bestStart
  ELSE LET align == alignmentScore(x, peaks[k], lag, 16)
       IN  IF k = 1 \/ align > bestAlign
           THEN refine(x, peaks, lag, k + 1, peaks[k], align)
           ELSE refine(x, peaks, lag, k + 1, bestStart, bestAlign)

startOf(x, lag) ==
  LET peaks == pickPeaks(x, median(x))
  IN  refine(x, peaks, lag, 1, IF Len(peaks) > 0 THEN peaks[1] ELSE 0, 0)

\* analyzeBuffer(buffer) up to the tempo scan
Analyze(w) ==
  /\ pc = "idle"
  /\ wave' = w
  /\ nFrames' = framesOf(w.len)
  /\ flux' = fluxOf(w)
  /\ bpm' = bpmMin /\ bestBpm' = 120 /\ bestScore' = NegInfinity /\ bestLag' = 0
  /\ pc' = "tempo"
  /\ UNCHANGED <<beatIdx, beatFrames, offAnalyze>>

\* one pass of the tempo scan
ScanBpm ==
  /\ pc = "tempo" /\ bpm <= bpmMax
  /\ LET lag   == lagOf(bpm, wave.sr)
         score == dotAtLag(flux, lag)
     IN  IF Greater(score, bestScore)
         THEN bestScore' = score /\ bestBpm' = bpm /\ bestLag' = lag
         ELSE UNCHANGED <<bestScore, bestBpm, bestLag>>
  /\ bpm' = bpm + 1
  /\ UNCHANGED <<wave, nFrames, flux, beatIdx, beatFrames, pc, offAnalyze>>

\* the scan is over: the grid's first frame is chosen among the peaks
PickStart ==
  /\ pc = "tempo" /\ bpm > bpmMax
  /\ beatIdx' = startOf(flux, bestLag)
  /\ beatFrames' = <<>>
  /\ pc' = "grid"
  /\ UNCHANGED <<wave, nFrames, flux, bpm, bestBpm, bestScore, bestLag, offAnalyze>>

\* one pass of for (let i = startIdx; i < nFrames; i += bestLag) beatFrames.push(i)
GridStep ==
  /\ pc = "grid" /\ beatIdx < nFrames /\ Len(beatFrames) < MaxGrid
  /\ beatFrames' = Append(beatFrames, beatIdx)
  /\ beatIdx' = beatIdx + bestLag
  /\ UNCHANGED <<wave, nFrames, flux, bpm, bestBpm, bestScore, bestLag, pc,
                 offAnalyze>>

\* the loop ends and the result is returned
Return ==
  /\ pc = "grid" /\ beatIdx >= nFrames
  /\ pc' = "done"
  /\ UNCHANGED <<wave, nFrames, flux, bpm, bestBpm, bestScore, bestLag, beatIdx,
                 beatFrames, offAnalyze>>

NextAnalyze ==
  \/ \E w \in Waves : Analyze(w)
  \/ ScanBpm
  \/ PickStart
  \/ GridStep
  \/ Return

SpecAnalyze == Init /\ [][NextAnalyze]_vars

\* C6: analyzeBuffer terminates with a finite grid on every buffer: the grid
\* loop, which runs while i < nFrames, moves i forward on each pass, so the grid
\* never holds more than nFrames beats
C6_GridLoopEnds ==
  (pc = "grid") => (bestLag >= 1 /\ Len(beatFrames) <= nFrames)

\* C7: on a silent buffer of any length the analysis comes to a result whose
\* bpm is an integer in 70..180 and whose beat list is a finite list of frames
C7_SilentResult ==
  (wave.n = 0 /\ pc \in {"grid", "done"}) =>
    /\ bestBpm \in bpmMin..bpmMax
    /\ \A k \in 1..Len(beatFrames) : beatFrames[k] < nFrames
    /\ \A k \in 1..(Len(beatFrames) - 1) : beatFrames[k] < beatFrames[k + 1]

\* C8: for a click track at 120 BPM (a click every half second) the result has
\* bpm in 118..122 and consecutive beats between 0.475 s and 0.525 s apart
C8_Click120 ==
  (wave.n > 0 /\ 2 * wave.period = wave.sr /\ pc = "done") =>
    /\ bestBpm \in 118..122
    /\ \A k \in 1..(Len(beatFrames) - 1) :
         LET step == (beatFrames[k + 1] - beatFrames[k]) * hop * 1000
         IN  475 * wave.sr <= step /\ step <= 525 * wave.sr

\* the score the tempo scan gives candidate b
scoreOf(b) == dotAtLag(flux, lagOf(b, wave.sr))

\* C21: the returned bpm is the first (lowest) candidate of 70..180 whose
\* score dotAtLag(flux, lag) is maximal: no candidate scores higher, every
\* lower candidate scores strictly lower, and the grid is stepped by the lag
\* of the returned bpm
C21_FirstMaximalBpm ==
  (pc \in {"grid", "done"}) =>
    /\ bestBpm \in bpmMin..bpmMax
    /\ \A c \in bpmMin..bpmMax : ~Greater(scoreOf(c), scoreOf(bestBpm))
    /\ \A c \in bpmMin..(bestBpm - 1) : Greater(scoreOf(bestBpm), scoreOf(c))
    /\ bestLag = lagOf(bestBpm, wave.sr)

\* the origin frame as the claim words it: 0 without a peak, else the earliest
\* of the first 200 peaks whose 16-beat alignment score is the largest
originFrame ==
  LET peaks == pickPeaks(flux, median(flux))
      n     == Min(200, Len(peaks))
      al(k) == alignmentScore(flux, peaks[k], bestLag, 16)
  IN  IF n = 0 THEN 0
      ELSE peaks[CHOOSE k \in 1..n :
                   /\ \A j \in 1..n : al(j) <= al(k)
                   /\ \A j \in 1..(k - 1) : al(j) < al(k)]

\* C22: the beat grid is strictly increasing, starts at the origin frame, steps
\* by exactly bestLag frames and stays below the frame count (the times are the
\* frames times hop / sampleRate)
C22_GridFromOrigin ==
  (pc \in {"grid", "done"}) =>
    /\ \A k \in 1..Len(beatFrames) :
         /\ beatFrames[k] = originFrame + (k - 1) * bestLag
         /\ beatFrames[k] < nFrames
    /\ \A k \in 1..(Len(beatFrames) - 1) :
         beatFrames[k] * hop < beatFrames[k + 1] * hop
    /\ (pc = "done") => (originFrame + Len(beatFrames) * bestLag >= nFrames)

(***************************************************************************)
(* Perlin (noise.js).  A table is the sequence of its entries, entry i at   *)
(* index i + 1.  Coordinates are in half units; fade is kept in 32nds and   *)
(* noise3 as the exact value times 65536.                                   *)
(***************************************************************************)
MaxSeedings == 2      \* setSeed calls on one field, the constructor's included
MaxOctaves  == 5      \* octaves of one fbm3 call

\* the octaves, lacunarity and gain (in quarters) of an fbm3 call
FbmChoices == {<<1, 2, 2>>, <<1, 3, 1>>, <<2, 3, 1>>, <<MaxOctaves, 2, 2>>}

PerlinSeeds == SeedInputs \cup {IntSeed(123456)}     \* and the constructor's default
Coords == {-1, 0, 1, 2}                                \* -0.5, 0, 0.5, 1.0

\* this._seed: the string's hash, or seed >>> 0
seedOf(seed) == IF seed.str THEN hashString(seed.s) ELSE ToWord(seed.n)

\* p with the entries at i and j, j <= i, exchanged
swap(p, i, j) ==
  IF j = i THEN p
  ELSE SubSeq(p, 1, j) \o <<p[i + 1]>> \o SubSeq(p, j + 2, i) \o <<p[j + 1]>>
       \o SubSeq(p, i + 2, Len(p))

\* one pass of the shuffle loop at index i: draw, then swap p[i] and p[j]
shuffleStep(st, i) ==
  LET a == mulberry32Step(st.a)
      j == FloorMul(mulberry32Mix(a), i + 1)
  IN  [a |-> a, p |-> swap(st.p, i, j)]

\* the passes for i = hi down to lo: the upper half of the range first, then
\* the lower half on what the upper half left
RECURSIVE shuffleRange(_, _, _)
shuffleRange(st, hi, lo) ==
  IF hi < lo THEN st
  ELSE IF hi = lo THEN shuffleStep(st, hi)
  ELSE LET mid == (hi + lo) \div 2
       IN  CHOOSE out \in {shuffleRange(upper, mid, lo) :
                              upper \in {shuffleRange(st, hi, mid + 1)}} : TRUE

\* the table a shuffle of p0 leaves: this._perm[i] = p[i & 255] for i < 512
permFromSingle(p0, word) == shuffleRange([a |-> word, p |-> p0], 255, 1).p
permFrom(p0, word) ==
  LET p == shuffleRange([a |-> word, p |-> p0], 255, 1).p
  IN  p \o p

\* for (let i = 0; i < 256; i++) p[i] = i
identity == [k \in 1..256 |-> k - 1]

\* the tables of the seeds in use, each shuffled once from the identity
seedTables == {<<seed, permFrom(identity, seedOf(seed))>> : seed \in PerlinSeeds}
tableOf(seed) == (CHOOSE t \in seedTables : t[1] = seed)[2]

\* setSeed(seed) on a field
setSeedOldStream(field, seed) ==
  [made |-> TRUE, seed |-> seed, _seed |-> seedOf(seed),
   _perm |-> permFrom(identity, field._seed), seedings |-> field.seedings + 1]
setSeed(field, seed) ==
  [made |-> TRUE, seed |-> seed, _seed |-> seedOf(seed), _perm |-> tableOf(seed),
   seedings |-> field.seedings + 1]

\* new Perlin(seed)
newPerlin(seed) == setSeed(NoField, seed)

\* fade(t) for t = f / 2, in 32nds
fade(f) == (f * f * f * (f * (6 * f - 30) + 40))

\* lerp(t, a, b) for t in 32nds: 32 times the value
lerp(t, a, b) == 32 * a + t * (b - a)

\* grad(hash, x, y, z)
grad(hash, x, y, z) ==
  LET h == hash % 16
      u == IF h < 8 THEN x ELSE y
      v == IF h < 4 THEN y ELSE IF h = 12 \/ h = 14 THEN x ELSE z
  IN  (IF h % 2 = 1 THEN -u ELSE u) + (IF (h \div 2) % 2 = 1 THEN -v ELSE v)

\* noise3(x, y, z) on table p, for coordinates c in half units
noise3(p, c) ==
  LET X == (c[1] \div 2) % 256
      Y == (c[2] \div 2) % 256
      Z == (c[3] \div 2) % 256
      x == c[1] % 2
      y == c[2] % 2
      z == c[3] % 2
      u == fade(x)
      v == fade(y)
      w == fade(z)
      A  == p[X + 1] + Y
      AA == p[A + 1] + Z
      AB == p[A + 2] + Z
      B  == p[X + 2] + Y
      BA == p[B + 1] + Z
      BB == p[B + 2] + Z
  IN  lerp(w,
        lerp(v,
          lerp(u, grad(p[AA + 1], x, y, z),         grad(p[BA + 1], x - 2, y, z)),
          lerp(u, grad(p[AB + 1], x, y - 2, z),     grad(p[BB + 1], x - 2, y - 2, z))),
        lerp(v,
          lerp(u, grad(p[AA + 2], x, y, z - 2),     grad(p[BA + 2], x - 2, y, z - 2)),
          lerp(u, grad(p[AB + 2], x, y - 2, z - 2), grad(p[BB + 2], x - 2, y - 2, z - 2))))

\* the indices of this._perm that noise3(x, y, z) reads, for coordinates c in
\* half units
lookups(p, c) ==
  LET X == (c[1] \div 2) % 256
      Y == (c[2] \div 2) % 256
      Z == (c[3] \div 2) % 256
      A  == p[X + 1] + Y
      AA == p[A + 1] + Z
      AB == p[A + 2] + Z
      B  == p[X + 2] + Y
      BA == p[B + 1] + Z
      BB == p[B + 2] + Z
  IN  {X, X + 1, A, A + 1, B, B + 1,
       AA, BA, AB, BB, AA + 1, BA + 1, AB + 1, BB + 1}

ConstructA(seed) ==
  /\ ~fieldA.made
  /\ fieldA' = newPerlin(seed) /\ fbmCall' = NoCall
  /\ UNCHANGED <<fieldB, at, sessionVars, audVars, anaVars, meshVars, takeVars>>

ConstructB(seed) ==
  /\ ~fieldB.made
  /\ fieldB' = newPerlin(seed) /\ fbmCall' = NoCall
  /\ UNCHANGED <<fieldA, at, sessionVars, audVars, anaVars, meshVars, takeVars>>

SetSeedA(seed) ==
  /\ fieldA.made /\ seed # fieldA.seed /\ fieldA.seedings < MaxSeedings
  /\ fieldA' = setSeed(fieldA, seed) /\ fbmCall' = NoCall
  /\ UNCHANGED <<fieldB, at, sessionVars, audVars, anaVars, meshVars, takeVars>>

SetSeedB(seed) ==
  /\ fieldB.made /\ seed # fieldB.seed /\ fieldB.seedings < MaxSeedings
  /\ fieldB' = setSeed(fieldB, seed) /\ fbmCall' = NoCall
  /\ UNCHANGED <<fieldA, at, sessionVars, audVars, anaVars, meshVars, takeVars>>

\* both fields are read at the next coordinate of a sequence
Sample(c) ==
  /\ fieldA.made /\ fieldB.made /\ c # at
  /\ at' = c /\ fbmCall' = NoCall
  /\ UNCHANGED <<fieldA, fieldB, sessionVars, audVars, anaVars, meshVars, takeVars>>

\* the sum of the n octaves that start with amplitude amp (in 512ths) and
\* frequency freq: sum += amp * noise3(x*freq, y*freq, z*freq), then freq *=
\* lacunarity and amp *= gain
RECURSIVE fbmSum(_, _, _, _, _, _, _)
fbmSum(p, c, n, lac, gq, amp, freq) ==
  IF n = 0 THEN 0
  ELSE amp * noise3(p, <<c[1] * freq, c[2] * freq, c[3] * freq>>)
       + fbmSum(p, c, n - 1, lac, gq, (amp * gq) \div 4, freq * lac)

\* fbm3(x, y, z, octaves, lacunarity, gain) on table p: the value times
\* 512 * 65536 (amp starts at 0.5, freq at 1.0)
fbm3FullAmp(p, c, octaves, lac, gq) == fbmSum(p, c, octaves, lac, gq, 512, 1)
fbm3(p, c, octaves, lac, gq) == fbmSum(p, c, octaves, lac, gq, 256, 1)

\* field A is asked fbm3 at the coordinate it was last read at
Fbm3(octaves, lac, gq) ==
  /\ fieldA.made /\ fieldB.made /\ fbmCall = NoCall
  /\ fbmCall' = [octaves |-> octaves, lacunarity |-> lac, gain |-> gq,
                 sum |-> fbm3(fieldA._perm, at, octaves, lac, gq)]
  /\ UNCHANGED <<fieldA, fieldB, at, sessionVars, audVars, anaVars, meshVars, takeVars>>

NextNoise ==
  \/ \E seed \in PerlinSeeds : ConstructA(seed)
  \/ \E seed \in PerlinSeeds : ConstructB(seed)
  \/ \E seed \in PerlinSeeds : SetSeedA(seed)
  \/ \E seed \in PerlinSeeds : SetSeedB(seed)
  \/ \E c \in Coords \X Coords \X {0, 1} : Sample(c)
  \/ \E f \in FbmChoices : Fbm3(f[1], f[2], f[3])

SpecNoise == Init /\ [][NextNoise]_vars

\* C10: two fields that were given the same seed, at construction or by a later
\* setSeed over whatever they held, hold the same 512-entry table and return
\* the same noise3 value at every coordinate they are read at
C10_SameSeedSameField ==
  (fieldA.made /\ fieldB.made /\ fieldA.seed = fieldB.seed) =>
    /\ Len(fieldA._perm) = 512
    /\ fieldA._perm = fieldB._perm
    /\ noise3(fieldA._perm, at) = noise3(fieldB._perm, at)

\* a field re-seeded with a string and a field constructed with it, read away
\* from the origin
C10_ReseededAgainstFresh ==
  /\ fieldA.made /\ fieldB.made /\ fieldA.seed = fieldB.seed /\ fieldA.seed.str
  /\ fieldA.seedings = 2 /\ fieldB.seedings = 1
  /\ at # <<0, 0, 0>>

\* C17: an fbm3 call with octaves = 1 returns half of noise3 at the same
\* coordinate of the same field, whatever lacunarity and gain it was given
C17_OneOctaveIsHalfNoise ==
  (fbmCall.octaves = 1) => fbmCall.sum = 256 * noise3(fieldA._perm, at)

\* a one-octave call on a string-seeded field where the field is not zero
C17_OneOctaveNonZero ==
  /\ fbmCall.octaves = 1 /\ fbmCall.sum # 0 /\ fieldA.seed.str
  /\ fbmCall.lacunarity = 3 /\ fbmCall.gain = 1

\* coordinates (in half units) around the ends of the 256-cell period
EdgeCoords == {-1, 0, 254, 510, 512}

\* C23: after every setSeed the first 256 entries of the table are a
\* permutation of 0..255 and entry i + 256 equals entry i, and every index that
\* noise3 reads, at the coordinate in use and at the ends of the period, lies
\* in 0..511
C23_TableAndLookups ==
  \A f \in {fieldA, fieldB} :
    f.made =>
      /\ Len(f._perm) = 512
      /\ {f._perm[k] : k \in 1..256} = 0..255
      /\ \A k \in 1..256 : f._perm[k + 256] = f._perm[k]
      /\ \A c \in (EdgeCoords \X EdgeCoords \X EdgeCoords) \cup {at} :
           lookups(f._perm, c) \subseteq 0..511

\* a re-seeded field read where noise3 indexes past entry 255
C23_ReadsPastWraparound ==
  /\ fieldA.made /\ fieldA.seedings = 2
  /\ \E k \in lookups(fieldA._perm, at) : k >= 256

(***************************************************************************)
(* Visuals (recorder.js): mesh, style and smoothed level.  Floats are kept *)
(* in fixed point: style numbers in hundredths, input levels in 20ths, the  *)
(* pulse in eighths (rounded down), the field's value in 64ths (rounded     *)
(* down) read at the half unit below the coordinate, times in half seconds. *)
(***************************************************************************)
MaxFrames == 3        \* update calls on one Visuals

NaN == -1             \* a number field holding NaN
undefined == -2       \* a field present with the value undefined
PosUnit == 64 * 80000

TimeChoices  == {0, 240}           \* a time: 0 s, 120 s
BarInputs    == {0, 5}             \* a bar length: undefined, 2.5 s
ShapeInputs  == {"cycle", "torus"}
VisualSeeds  == {IntSeed(123456)}  \* the constructor's default seed

\* update's arguments <<t, level, beatPulse, autoShape>>
UpdateInputs ==
  { <<0, 0, 0, TRUE>>, <<240, 0, 0, TRUE>>, <<0, 20, 0, FALSE>>, <<240, 0, 8, FALSE>> }

\* the constructor's style, without the fields only the material reads
DefaultStyle ==
  [hue |-> 66, noiseScale |-> 55, displaceAmp |-> 85, rotateBase |-> 12,
   audioReact |-> 35, shapeBias |-> "null"]

\* records given to applyStyle: interpretPrompt's for '' and for 'green organic
\* box', and partial records with a malformed hue; the seed of the Visuals
FullStyles ==
  { DefaultStyle,
    [DefaultStyle EXCEPT !.hue = 35, !.noiseScale = 45, !.displaceAmp = 100,
                         !.shapeBias = "box"] }
StyleInputs == FullStyles \cup { [hue |-> NaN], [hue |-> undefined] }

\* the vertices a geometry constructor gives, flattened as position.array is
geometryOf(s) ==
  CASE s = "icosa" -> <<2, 1, 0>>
    [] s = "torus" -> <<1, 0, 2,  0, 1, 1,  -1, 2, 0>>
    [] s = "plane" -> <<3, 3, 0,  -3, 3, 0,  3, -3, 0,  -3, -3, 0>>
    [] s = "box"   -> <<1, 1, 1,  -1, -1, -1,  1, -1, 1>>
    [] OTHER       -> <<0, 2, 0,  2, 0, 1>>

\* a position array holding the coordinates of base, undisplaced
RECURSIVE undisplaced(_)
undisplaced(base) ==
  IF base = <<>> THEN <<>> ELSE <<base[1] * PosUnit>> \o undisplaced(Tail(base))

\* { ...this.style, ...style }
spread(cur, st) ==
  [k \in DOMAIN cur \cup DOMAIN st |-> IF k \in DOMAIN st THEN st[k] ELSE cur[k]]

\* this.level ? this.level * 0.85 + level * 0.15 : level
onePole(lvl, x) == Ratio(17 * lvl[1] * 20 + 3 * x * lvl[2], 400 * lvl[2])
smoothed(lvl, x) == IF lvl[1] = 0 THEN Ratio(x, 20) ELSE onePole(lvl, x)

\* Math.pow(x, 0.9) for x = q / 8, in eighths
pow09(q) ==
  CHOOSE r \in 0..8 : r^10 <= 8 * q^9 /\ (r = 8 \/ (r + 1)^10 > 8 * q^9)

\* Math.max(beatPulse, Math.pow(clamp(this.level, 0, 1), 0.9))
pulseOf(lvl, beatPulse) == Max(beatPulse, pow09(clamp((8 * lvl[1]) \div lvl[2], 0, 8)))

\* where the displacement loop reads the field for the vertex at
\* base[i + 1 .. i + 3]: (x0*freq + t*speed, y0*freq + 3.123, z0*freq - 1.789)
placeOf(base, i, freq, t) ==
  << (4 * base[i + 1] * freq + 50 * t) \div 200,
     (4 * base[i + 2] * freq + 1249) \div 200,
     (4 * base[i + 3] * freq - 716) \div 200 >>

\* this.perlin.fbm3(.., 5, 2.0, 0.5) at the places the meshes in use are read
\* at, each computed once
meshField ==
  { <<seed, c, fbm3(tableOf(seed), c, MaxOctaves, 2, 2) \div (Half * 8)>> :
      seed \in VisualSeeds,
      c \in UNION { { placeOf(geometryOf(s), 3 * v, st.noiseScale, t) :
                        v \in 0..(Len(geometryOf(s)) \div 3 - 1) } :
                    s \in Shapes, st \in FullStyles, t \in TimeChoices } }

\* 1 + amp * n for that vertex, in 1 / PosUnit: amp is
\* displaceAmp * (0.6 + audioReact * pulse), n the field's value
factor(base, i, st, seed, t, pulse) ==
  PosUnit + st.displaceAmp * (480 + st.audioReact * pulse)
            * (CHOOSE e \in meshField :
                 e[1] = seed /\ e[2] = placeOf(base, i, st.noiseScale, t))[3]

\* the displacement loop from index i on: pos[i] = x0 * d, pos[i+1] = y0 * d,
\* pos[i+2] = z0 * d
RECURSIVE displaceAccumulating(_, _, _, _, _, _)
displaceAccumulating(base, i, st, seed, t, pulse) ==
  IF i >= Len(base) THEN <<>>
  ELSE LET d == factor(base, i, st, seed, t, pulse)
       IN  << positions[i + 1] + base[i + 1] * (d - PosUnit),
              positions[i + 2] + base[i + 2] * (d - PosUnit),
              positions[i + 3] + base[i + 3] * (d - PosUnit) >>
           \o displaceAccumulating(base, i + 3, st, seed, t, pulse)
RECURSIVE displace(_, _, _, _, _, _)
displace(base, i, st, seed, t, pulse) ==
  IF i >= Len(base) THEN <<>>
  ELSE LET d == factor(base, i, st, seed, t, pulse)
       IN  <<base[i + 1] * d, base[i + 2] * d, base[i + 3] * d>>
           \o displace(base, i + 3, st, seed, t, pulse)

\* the variables the Visuals model leaves alone
offVisuals == <<mainVars, fires, fired, framed, deadlineSeen, lastFireAt, prevFireSeen,
                audVars, anaVars, perlinVars, takeVars>>

\* _buildMesh(shape): a new mesh of the shape's geometry and a snapshot of it
_buildMeshKeepBase(s) ==
  /\ shape' = s /\ positions' = undisplaced(geometryOf(s)) /\ rotation' = 0
  /\ fresh' = TRUE /\ UNCHANGED basePositions
_buildMesh(s) ==
  /\ shape' = s
  /\ basePositions' = geometryOf(s)
  /\ positions' = undisplaced(geometryOf(s))
  /\ rotation' = 0
  /\ fresh' = TRUE

\* new Visuals({container, seed})
VisualsNew(seed) ==
  /\ ~visuals /\ visuals' = TRUE
  /\ seedIn' = seed /\ rand' = SeedWord(seed)
  /\ style' = DefaultStyle /\ _buildMesh("sphere")
  /\ level' = NoLevel
  /\ op' = "constructor" /\ args' = NoArgs /\ again' = FALSE
  /\ UNCHANGED <<_nextShapeAt, _barSeconds, frames, offVisuals>>

\* setShape(shape), called by itself or from applyStyle
setShapeMesh(s) ==
  IF setShape(shape, s) # shape THEN _buildMesh(s)
  ELSE UNCHANGED <<shape, basePositions, positions, rotation, fresh>>

VisualsSetShape(s) ==
  /\ visuals
  /\ setShapeMesh(s)
  /\ op' = "setShape" /\ args' = [shape |-> s] /\ again' = FALSE
  /\ UNCHANGED <<visuals, seedIn, rand, _nextShapeAt, _barSeconds, style, level, frames,
                 offVisuals>>

\* applyStyle(style)
VisualsApplyStyle(st) ==
  /\ visuals
  /\ style' = spread(style, st)
  /\ IF "shapeBias" \in DOMAIN st /\ st.shapeBias # "null"
     THEN setShapeMesh(st.shapeBias)
     ELSE UNCHANGED <<shape, basePositions, positions, rotation, fresh>>
  /\ op' = "applyStyle" /\ args' = st /\ again' = FALSE
  /\ UNCHANGED <<visuals, seedIn, rand, _nextShapeAt, _barSeconds, level, frames,
                 offVisuals>>

\* setBarSeconds(barSeconds)
VisualsSetBarSeconds(bar) ==
  /\ visuals
  /\ _barSeconds' = bar
  /\ op' = "setBarSeconds" /\ args' = [bar |-> bar] /\ again' = FALSE
  /\ UNCHANGED <<visuals, seedIn, shape, rand, _nextShapeAt, style, basePositions,
                 positions, level, rotation, fresh, frames, offVisuals>>

\* scheduleAutoShape(startTime, barSeconds)
VisualsScheduleAutoShape(t, bar) ==
  /\ visuals
  /\ _nextShapeAt' = scheduleNextShape(t, bar)
  /\ op' = "scheduleAutoShape" /\ args' = [t |-> t, bar |-> bar] /\ again' = FALSE
  /\ UNCHANGED <<visuals, seedIn, shape, rand, _barSeconds, style, basePositions,
                 positions, level, rotation, fresh, frames, offVisuals>>

\* update({t, level, beatPulse, autoShape}): the level filter, the displacement
\* of the mesh from its snapshot, the rotation, then the shape scheduler
VisualsUpdate(t, lv, beatPulse, autoShape) ==
  LET lvl   == smoothed(level, lv)
      pulse == pulseOf(lvl, beatPulse)
      u     == Update(shape, rand, _nextShapeAt, _barSeconds, t, autoShape)
  IN  /\ visuals /\ frames < MaxFrames
      /\ level' = lvl
      /\ rand' = u.rand /\ _nextShapeAt' = u.next
      /\ IF u.fired THEN _buildMesh(u.shape)
         ELSE /\ positions' = displace(basePositions, 0, style, seedIn, t, pulse)
              /\ rotation' = rotation + 2 * style.rotateBase + 5 * pulse
              /\ fresh' = FALSE
              /\ UNCHANGED <<shape, basePositions>>
      /\ op' = "update" /\ frames' = frames + 1
      /\ args' = [t |-> t, level |-> lv, beatPulse |-> beatPulse, autoShape |-> autoShape]
      /\ again' = (op = "update" /\ args = args')
      /\ UNCHANGED <<visuals, seedIn, _barSeconds, style, offVisuals>>

NextVisuals ==
  \/ \E seed \in VisualSeeds : VisualsNew(seed)
  \/ \E s \in ShapeInputs : VisualsSetShape(s)
  \/ \E st \in StyleInputs : VisualsApplyStyle(st)
  \/ \E bar \in BarInputs : VisualsSetBarSeconds(bar)
  \/ \E t \in TimeChoices, bar \in BarInputs : VisualsScheduleAutoShape(t, bar)
  \/ \E a \in UpdateInputs : VisualsUpdate(a[1], a[2], a[3], a[4])

SpecVisuals == Init /\ [][NextVisuals]_vars

\* C11 as stated: an update with level 0 and beatPulse 0 that repeats the
\* update just before it leaves basePositions as they were and produces the
\* live positions that update produced
C11_RepeatSamePositions ==
  [][ (op' = "update" /\ again' /\ args'.level = 0 /\ args'.beatPulse = 0) =>
        (basePositions' = basePositions /\ positions' = positions) ]_vars

\* C11, amended: an update that changes no shape leaves basePositions as they
\* were and computes the live positions from them, the time and the pulse of
\* the smoothed level alone; when it repeats the update just before it and the
\* smoothed level has not moved, it produces the same live positions again
C11_RecomputedFromBase ==
  [][ (op' = "update" /\ ~fresh') =>
        /\ basePositions' = basePositions
        /\ positions' = displace(basePositions, 0, style, seedIn, args'.t,
                                 pulseOf(level', args'.beatPulse))
        /\ (again' /\ ~fresh /\ level' = level) => positions' = positions ]_vars

\* a repeated update at level 0 on a displaced mesh whose smoothed level is 0
C11_RepeatedAtRest ==
  /\ op = "update" /\ again /\ ~fresh /\ args.level = 0 /\ args.beatPulse = 0
  /\ level = <<0, 1>> /\ positions # undisplaced(basePositions)

\* C12: from a shape change (an automatic one in update, setShape, or
\* applyStyle with a shape bias) to the next update the live positions are the
\* base positions, and at all times both arrays have the length of the
\* current shape's geometry
C12_FreshMeshUndisplaced ==
  visuals =>
    /\ Len(basePositions) = Len(geometryOf(shape))
    /\ Len(positions) = Len(basePositions)
    /\ fresh => (basePositions = geometryOf(shape)
                 /\ positions = undisplaced(basePositions))

\* an automatic change (no caller asks for these shapes) to a shape of another
\* vertex count, after a mesh was displaced, still undisplaced after a later
\* call that is no update
C12_RebuiltAfterDisplacement ==
  /\ fresh /\ frames >= 2 /\ op = "setBarSeconds" /\ shape \in {"icosa", "plane"}
  /\ Len(basePositions) # Len(geometryOf("sphere"))

\* C13: applyStyle leaves the mesh's accumulated rotation as it was
C13_StyleKeepsRotation ==
  [][ (op' = "applyStyle") => rotation' = rotation ]_vars

\* C16: a numeric field that is NaN or undefined in the record given to
\* applyStyle keeps its prior value in this.style
C16_MalformedKeepsPrior ==
  [][ (op' = "applyStyle") =>
        \A k \in DOMAIN args' \ {"shapeBias"} :
          (args'[k] \in {NaN, undefined}) => style'[k] = style[k] ]_vars

\* C18: scheduleAutoShape(t, bar) arms the scheduler at t + 16 bars, and an
\* update at t that changes the shape re-arms it at t + 16 bars of the length
\* setBarSeconds gave, a bar being 7.5 s where none is given
C18_ArmsSixteenBars ==
  [][ /\ (op' = "scheduleAutoShape") =>
            _nextShapeAt' = args'.t + 16 * (IF args'.bar = 0 THEN 15 ELSE args'.bar)
      /\ (op' = "update" /\ fresh') =>
            _nextShapeAt' = args'.t + 16 * (IF _barSeconds = 0 THEN 15 ELSE _barSeconds)
    ]_vars

\* an update at 120 s that overshot its deadline and re-armed with the default bar
C18_RearmedWithDefaultBar ==
  op = "update" /\ fresh /\ _barSeconds = 0 /\ args.t = 240 /\ _nextShapeAt = 480

\* C19: the first update sets the smoothed level to its level argument, every
\* later one to 0.85 of the smoothed level plus 0.15 of the argument
C19_OnePoleFilter ==
  [][ (op' = "update") =>
        level' = IF level = NoLevel THEN Ratio(args'.level, 20)
                 ELSE onePole(level, args'.level) ]_vars


(***************************************************************************)
(* main.js: Start, Stop, Record, Stop Record and Render Take.  The frame    *)
(* loop and the visuals of a session are followed under Spec; here a        *)
(* session is the engine that audio names, and one startAll runs at a time. *)
(***************************************************************************)
MaxEngines    == 3    \* startAll calls that reach new AudioEngine()
MaxRecordings == 3    \* recorder.start calls

offTake == <<sessionVars, audVars, anaVars, perlinVars, meshVars>>

\* enableRunButtons(on) and enableRecordButtons(recOn) on the buttons d
enableRunButtons(d, on) ==
  [d EXCEPT !.stop = ~on, !.record = ~on, !.renderTake = ~on, !.start = on]
enableRecordButtons(d, recOn) ==
  [d EXCEPT !.stopRecord = ~recOn, !.record = recOn]

\* the buttons as stopAll() leaves them
afterStopAll(d) == enableRecordButtons(enableRunButtons(d, FALSE), FALSE)

\* the session that is running, 0 for none
runningSession == IF sessionOn THEN current ELSE 0

\* startAll up to its await: audio = new AudioEngine(), then the start of the
\* engine is awaited; without a track to upload the call throws instead
startAllBegin(ready, take) ==
  /\ engines < MaxEngines /\ pending = NoPending
  /\ engines' = engines + 1 /\ current' = engines + 1 /\ sessionOn' = FALSE
  /\ pending' = IF ready THEN [id |-> engines + 1, take |-> take] ELSE NoPending
  /\ threw' = ~ready

\* the Start button
ClickStart(ready) ==
  /\ ~disabled.start
  /\ startAllBegin(ready, FALSE)
  /\ UNCHANGED <<recorder, recordings, stopping, timers, disabled, lastRecordingBlob,
                 expiry, offTake>>

\* the Render Take button, up to the await: stopAll(), then startAll
ClickRenderTake(ready) ==
  /\ ~disabled.renderTake
  /\ startAllBegin(ready, TRUE)
  /\ disabled' = afterStopAll(disabled)
  /\ UNCHANGED <<recorder, recordings, stopping, timers, lastRecordingBlob, expiry,
                 offTake>>

\* startAll after its await: with audio null it throws at audio.getBarSeconds();
\* otherwise recorder = new AVRecorder(...), loop(), enableRunButtons(true), and
\* for renderTake startRecord() and the timer
StartAllDone ==
  /\ pending # NoPending
  /\ pending.take => recordings < MaxRecordings
  /\ pending' = NoPending
  /\ IF current = 0
     THEN /\ threw' = TRUE
          /\ UNCHANGED <<sessionOn, recorder, recordings, timers, disabled>>
     ELSE /\ threw' = FALSE /\ sessionOn' = TRUE
          /\ IF pending.take
             THEN /\ recordings' = recordings + 1
                  /\ recorder' = [of |-> current, mr |-> recordings + 1,
                                  state |-> "recording"]
                  /\ disabled' = enableRecordButtons(enableRunButtons(disabled, TRUE),
                                                     TRUE)
                  /\ timers' = timers \cup {[owner |-> current]}
             ELSE /\ recorder' = [NoRecorder EXCEPT !.of = current]
                  /\ disabled' = enableRunButtons(disabled, TRUE)
                  /\ UNCHANGED <<recordings, timers>>
  /\ UNCHANGED <<engines, current, stopping, lastRecordingBlob, expiry, offTake>>

\* the Stop button: stopAll()
ClickStop ==
  /\ ~disabled.stop
  /\ current' = 0 /\ sessionOn' = FALSE
  /\ disabled' = afterStopAll(disabled)
  /\ threw' = FALSE
  /\ UNCHANGED <<engines, pending, recorder, recordings, stopping, timers,
                 lastRecordingBlob, expiry, offTake>>

\* the Record button: startRecord(), which makes a new MediaRecorder and
\* starts it (a TypeError while recorder is undefined)
ClickRecord ==
  /\ ~disabled.record /\ recordings < MaxRecordings
  /\ IF recorder.of = 0
     THEN threw' = TRUE /\ UNCHANGED <<recorder, recordings, disabled>>
     ELSE /\ threw' = FALSE
          /\ recordings' = recordings + 1
          /\ recorder' = [recorder EXCEPT !.mr = recordings + 1, !.state = "recording"]
          /\ disabled' = enableRecordButtons(disabled, TRUE)
  /\ UNCHANGED <<engines, current, sessionOn, pending, stopping, timers,
                 lastRecordingBlob, expiry, offTake>>

\* stopRecord() up to the stop event, called by the button (owner 0) or by the
\* timer of the take that started session owner.  recorder.stop() resolves
\* with null when no MediaRecorder was made; it sets onstop and stops a
\* MediaRecorder that is recording; on one that is inactive MediaRecorder.stop
\* throws after onstop was replaced, so the caller and the call that waited on
\* the old onstop both end there.  The steps after the await are lastRecordingBlob =
\* blob and, for the timer, stopAll().
stopRecord(owner) ==
  IF recorder.mr = 0
  THEN /\ lastRecordingBlob' = 0 /\ threw' = FALSE
       /\ IF owner = 0
          THEN UNCHANGED <<current, sessionOn, disabled, expiry>>
          ELSE /\ current' = 0 /\ sessionOn' = FALSE
               /\ disabled' = afterStopAll(disabled)
               /\ expiry' = [owner |-> owner, cut |-> 0, stopped |-> runningSession]
       /\ UNCHANGED <<recorder, stopping>>
  ELSE IF recorder.state = "recording"
  THEN /\ recorder' = [recorder EXCEPT !.state = "inactive"]
       /\ stopping' = stopping \cup {[mr |-> recorder.mr, owner |-> owner,
                                      cut |-> recorder.of]}
       /\ threw' = FALSE
       /\ UNCHANGED <<current, sessionOn, disabled, lastRecordingBlob, expiry>>
  ELSE /\ stopping' = {c \in stopping : c.mr # recorder.mr}
       /\ threw' = TRUE
       /\ UNCHANGED <<current, sessionOn, disabled, lastRecordingBlob, expiry, recorder>>

\* the Stop Record button
ClickStopRecord ==
  /\ ~disabled.stopRecord
  /\ stopRecord(0)
  /\ UNCHANGED <<engines, pending, recordings, timers, offTake>>

\* the timer of a take expires: await stopRecord(); stopAll()
TimerExpires(t) ==
  /\ t \in timers
  /\ timers' = timers \ {t}
  /\ stopRecord(t.owner)
  /\ UNCHANGED <<engines, pending, recordings, offTake>>

\* the stop event of a MediaRecorder: onstop resolves the call that waits
RecorderStopped(c) ==
  /\ c \in stopping
  /\ stopping' = stopping \ {c}
  /\ lastRecordingBlob' = c.mr
  /\ threw' = FALSE
  /\ IF c.owner = 0
     THEN UNCHANGED <<current, sessionOn, disabled, expiry>>
     ELSE /\ current' = 0 /\ sessionOn' = FALSE
          /\ disabled' = afterStopAll(disabled)
          /\ expiry' = [owner |-> c.owner, cut |-> c.cut, stopped |-> runningSession]
  /\ UNCHANGED <<engines, pending, recorder, recordings, timers, offTake>>

NextTake ==
  \/ \E ready \in BOOLEAN : ClickStart(ready)
  \/ \E ready \in BOOLEAN : ClickRenderTake(ready)
  \/ StartAllDone
  \/ ClickStop
  \/ ClickRecord
  \/ ClickStopRecord
  \/ \E t \in timers : TimerExpires(t)
  \/ \E c \in stopping : RecorderStopped(c)

SpecTake == Init /\ [][NextTake]_vars

\* C24: the timer of a take ends only the session the take started: what its
\* expiry stops, the engine and the recording, belongs to no other session
C24_TimerEndsOwnSession ==
  (expiry # NoExpiry) =>
    /\ expiry.stopped \in {0, expiry.owner}
    /\ expiry.cut \in {0, expiry.owner}

\* C25: while a session runs and no stopRecord is at its await, Stop Record is
\* enabled exactly while the recorder is recording and Record exactly while it
\* is not, and no recorder.stop has been called on a stopped recorder
C25_ButtonsTrackRecorder ==
  (sessionOn /\ stopping = {}) =>
    /\ disabled.stopRecord = (recorder.state # "recording")
    /\ disabled.record = (recorder.state = "recording")
    /\ ~threw

====
